---------------------------- MODULE Spec2Model ----------------------------
(***************************************************************************)
(* A model of Ai_Stock.py, a Streamlit script.  Streamlit executes the     *)
(* whole script from top to bottom on every user interaction (a "run");    *)
(* st.session_state, the widget values and the file system survive from    *)
(* one run to the next, every other name of the script is rebuilt.         *)
(*                                                                         *)
(* One run is modelled as a chain of steps, one per block of the script;   *)
(* pc names the block the run is about to execute, "done" when the script  *)
(* has stopped and "idle" between runs.                                    *)
(***************************************************************************)
EXTENDS Integers, Sequences, FiniteSets, TLC

(***************************************************************************)
(* Bounds of the model.                                                    *)
(***************************************************************************)
MaxRows == 2        \* rows of a frame the provider returns
MaxSel == 2         \* length of an indicator selection
MaxAnalyses == 2    \* temporary files ever created (analysis invocations)
MaxFaults == 1      \* exceptions injected into add_indicator in one run
MaxExtra == 1       \* rows beyond the rolling window in the long downloads

(***************************************************************************)
(* Program constants.                                                      *)
(***************************************************************************)
Window == 20        \* rolling(window=20)
Span == 20          \* ewm(span=20)
BandWidth == 2      \* sma +/- 2 * std

LowClose == 1       \* the two closing prices of the downloads of the model
HighClose == 2
SpikeClose == 5     \* a third closing price, of one day of a long download

SMA_NAME == "20-Day SMA"
EMA_NAME == "20-Day EMA"
BB_NAME == "20-Day Bollinger Bands"
VWAP_NAME == "VWAP"

\* The options of the multiselect, in the order the script lists them.
IndicatorOptions == <<SMA_NAME, EMA_NAME, BB_NAME, VWAP_NAME>>

Indicators == {IndicatorOptions[k] : k \in 1..Len(IndicatorOptions)}

\* default=["20-Day SMA"]
DefaultSelection == <<SMA_NAME>>

\* What st.sidebar.multiselect can return: the chosen options in the order
\* the user chose them, none twice.
Selections ==
  {s \in UNION {[1..n -> Indicators] : n \in 0..MaxSel} :
     \A a, b \in DOMAIN s : a # b => s[a] # s[b]}

(***************************************************************************)
(* Cells of a DataFrame.  A float64 cell is an exact fraction num/den;     *)
(* den = 0 is a non-finite float: 0/0 is NaN, n/0 with n # 0 an infinity.  *)
(* An object cell holds text: a numeric literal (den = 1) or other text.   *)
(***************************************************************************)
Num(n) == [t |-> "float", num |-> n, den |-> 1]

NaN == [t |-> "float", num |-> 0, den |-> 0]

NumStr(n) == [t |-> "str", num |-> n, den |-> 1]

Text == [t |-> "str", num |-> 0, den |-> 0]

\* pandas isnull on one cell: NaN (and None) are null; text and infinities are not.
IsNullCell(c) == c.t = "float" /\ c.num = 0 /\ c.den = 0

IsFinite(c) == c.t = "float" /\ c.den > 0

Abs(n) == IF n < 0 THEN -n ELSE n

RECURSIVE GCD(_, _)
GCD(a, b) == IF b = 0 THEN a ELSE GCD(b, a % b)

\* The float n / d, as pandas divides: x/0 is not an error.
Frac(n, d) ==
  IF d = 0
    THEN [t |-> "float", num |-> (IF n > 0 THEN 1 ELSE IF n < 0 THEN -1 ELSE 0), den |-> 0]
    ELSE LET s == IF d < 0 THEN -1 ELSE 1
             g == GCD(Abs(n), Abs(d))
         IN  [t |-> "float", num |-> (s * n) \div g, den |-> (s * d) \div g]

\* Float arithmetic on cells; NaN in, NaN out.
CellAdd(a, b) ==
  IF ~IsFinite(a) \/ ~IsFinite(b) THEN NaN
  ELSE Frac(a.num * b.den + b.num * a.den, a.den * b.den)

CellSub(a, b) ==
  IF ~IsFinite(a) \/ ~IsFinite(b) THEN NaN
  ELSE Frac(a.num * b.den - b.num * a.den, a.den * b.den)

CellMul(a, b) ==
  IF ~IsFinite(a) \/ ~IsFinite(b) THEN NaN
  ELSE Frac(a.num * b.num, a.den * b.den)

CellDiv(a, b) ==
  IF ~IsFinite(a) \/ ~IsFinite(b) THEN NaN
  ELSE Frac(a.num * b.den, a.den * b.num)

\* Series (columns) are sequences of cells.
SeriesMul(a, b) == [k \in DOMAIN a |-> CellMul(a[k], b[k])]

SeriesDiv(a, b) == [k \in DOMAIN a |-> CellDiv(a[k], b[k])]

RECURSIVE SumTo(_, _)
SumTo(s, k) == IF k = 0 THEN Num(0) ELSE CellAdd(SumTo(s, k - 1), s[k])

\* Series.cumsum()
CumSum(s) == [k \in DOMAIN s |-> SumTo(s, k)]


(***************************************************************************)
(* DataFrames are functions from column names to series of equal length.   *)
(***************************************************************************)
Rows(df) == Len(df["Date"])

\* data.empty
IsEmpty(df) == Rows(df) = 0

\* data.isnull().values.any()
HasNull(df) == \E c \in DOMAIN df : \E k \in DOMAIN df[c] : IsNullCell(df[c][k])

\* data[col] = series: the column is replaced, or added when the frame has none.
SetColumn(df, col, series) ==
  [c \in DOMAIN df \cup {col} |-> IF c = col THEN series ELSE df[c]]

\* The frame lines 25-30 build from a download: a Date column and OHLCV.
MakeFrame(closes, volumes) ==
  [c \in {"Date", "Open", "High", "Low", "Close", "Volume"} |->
     IF c = "Date" THEN [k \in DOMAIN closes |-> Num(k)]
     ELSE IF c = "Volume" THEN volumes
     ELSE closes]

\* The downloads of the model, of 0 to MaxRows rows: closes alternate
\* between the two close values, and the volumes are all positive or start
\* with a day without volume.
Closes(n) == [k \in 1..n |-> Num(IF k % 2 = 1 THEN LowClose ELSE HighClose)]

Ones(n) == [k \in 1..n |-> Num(1)]

ZeroFirst(n) == [k \in 1..n |-> Num(IF k = 1 THEN 0 ELSE 1)]

CleanFrames ==
  {MakeFrame(Closes(n), v) : <<n, v>> \in UNION {{<<m, Ones(m)>>, <<m, ZeroFirst(m)>>} : m \in 0..MaxRows}}

\* Downloads with a defect in the first row: a missing close, volumes
\* delivered as numeric text, a volume that is no number.
DefectFrames ==
  UNION {{MakeFrame([Closes(n) EXCEPT ![1] = NaN], Ones(n)),
          MakeFrame(Closes(n), [k \in 1..n |-> NumStr(1)]),
          MakeFrame(Closes(n), [Ones(n) EXCEPT ![1] = Text])} : n \in 1..MaxRows}

\* What yf.download followed by lines 26-30 can hand to line 32.
ProviderFrames == CleanFrames \cup DefectFrames

(***************************************************************************)
(* pd.to_numeric, lines 55-63.                                             *)
(***************************************************************************)
CanConvert(c) == c.t = "float" \/ c.den = 1

ToNumericCell(c) == IF c.t = "str" THEN Num(c.num) ELSE c

SeriesConvertible(s) == \A k \in DOMAIN s : CanConvert(s[k])

ToNumericSeries(s) == [k \in DOMAIN s |-> ToNumericCell(s[k])]

NumericColumns == <<"Open", "High", "Low", "Close", "Volume">>

\* The columns are converted and assigned one after the other; the first one
\* that does not convert raises ValueError and leaves the earlier ones assigned.
RECURSIVE ConvertFrom(_, _)
ConvertFrom(df, k) ==
  IF k > Len(NumericColumns) THEN [data |-> df, ok |-> TRUE]
  ELSE LET col == NumericColumns[k]
       IN  IF SeriesConvertible(df[col])
             THEN ConvertFrom(SetColumn(df, col, ToNumericSeries(df[col])), k + 1)
             ELSE [data |-> df, ok |-> FALSE]

ToNumeric(df) == ConvertFrom(df, 1)

(***************************************************************************)
(* The indicator computations of add_indicator, lines 94-113.              *)
(***************************************************************************)
RECURSIVE WindowSum(_, _, _)
WindowSum(s, lo, hi) == IF lo > hi THEN Num(0) ELSE CellAdd(WindowSum(s, lo, hi - 1), s[hi])

\* A variant with min_periods=1: the mean of the rows there are so far.
RollingMeanPartial(s, w) ==
  [k \in DOMAIN s |->
     IF k < w THEN CellDiv(WindowSum(s, 1, k), Num(k))
     ELSE CellDiv(WindowSum(s, k - w + 1, k), Num(w))]

\* series.rolling(window=w).mean(): NaN until the window is full.
RollingMean(s, w) ==
  [k \in DOMAIN s |->
     IF k < w THEN NaN ELSE CellDiv(WindowSum(s, k - w + 1, k), Num(w))]

\* series.rolling(window=w).var() with pandas' ddof=1.
RollingVar(s, w) ==
  [k \in DOMAIN s |->
     IF k < w THEN NaN
     ELSE LET sum == WindowSum(s, k - w + 1, k)
              sq == WindowSum(SeriesMul(s, s), k - w + 1, k)
          IN  CellDiv(CellSub(CellMul(Num(w), sq), CellMul(sum, sum)), Num(w * (w - 1)))]

\* mean + k * sqrt(var): the root is kept symbolic.
Band(mean, k, var) ==
  IF ~IsFinite(mean) \/ ~IsFinite(var) THEN NaN
  ELSE [t |-> "band", mean |-> mean, k |-> k, var |-> var]

\* series.ewm(span=n).mean(), adjust=True: weights (1 - alpha)^j, alpha = 2/(n+1).
Decay(n) == Frac(n - 1, n + 1)

RECURSIVE EwmNum(_, _, _)
EwmNum(s, n, k) ==
  IF k = 0 THEN Num(0) ELSE CellAdd(s[k], CellMul(Decay(n), EwmNum(s, n, k - 1)))

RECURSIVE EwmDen(_, _)
EwmDen(n, k) == IF k = 0 THEN Num(0) ELSE CellAdd(Num(1), CellMul(Decay(n), EwmDen(n, k - 1)))

EwmMean(s, n) == [k \in DOMAIN s |-> CellDiv(EwmNum(s, n, k), EwmDen(n, k))]

SMA(df) == RollingMean(df["Close"], Window)

EMA(df) == EwmMean(df["Close"], Span)

BBUpper(df) ==
  [k \in 1..Rows(df) |-> Band(SMA(df)[k], BandWidth, RollingVar(df["Close"], Window)[k])]

BBLower(df) ==
  [k \in 1..Rows(df) |-> Band(SMA(df)[k], -BandWidth, RollingVar(df["Close"], Window)[k])]

\* (data['Close'] * data['Volume']).cumsum() / data['Volume'].cumsum()
VWAP(df) ==
  SeriesDiv(CumSum(SeriesMul(df["Close"], df["Volume"])), CumSum(df["Volume"]))

(***************************************************************************)
(* Figures are sequences of traces.                                        *)
(***************************************************************************)
Candlestick(df) ==
  [type |-> "candlestick", name |-> "Candlestick", x |-> df["Date"],
   open |-> df["Open"], high |-> df["High"], low |-> df["Low"], close |-> df["Close"]]

Scatter(df, y, name) ==
  [type |-> "scatter", mode |-> "lines", name |-> name, x |-> df["Date"], y |-> y]

\* The statements of an indicator's branch that can raise, by source line.
BranchLines(indicator) ==
  IF indicator = SMA_NAME THEN 97..98
  ELSE IF indicator = EMA_NAME THEN 100..101
  ELSE IF indicator = BB_NAME THEN 103..108
  ELSE IF indicator = VWAP_NAME THEN 110..111
  ELSE {}

\* The lines of a branch that compute the indicator (the others add traces).
ComputeLines(indicator) ==
  IF indicator = SMA_NAME THEN {97}
  ELSE IF indicator = EMA_NAME THEN {100}
  ELSE IF indicator = BB_NAME THEN 103..106
  ELSE IF indicator = VWAP_NAME THEN {110}
  ELSE {}

\* The body of the try block of add_indicator, lines 96-111, with an
\* exception raised at line `fault` of the branch taken (0: none).  data and
\* fig are mutated in place, so what was done before the exception stays done.
TryBody(indicator, df, fg, fault) ==
  LET ran(line) == fault = 0 \/ fault > line
  IN
  IF indicator = SMA_NAME THEN
    [data |-> df,
     fig |-> IF ran(98) THEN Append(fg, Scatter(df, SMA(df), "SMA (20)")) ELSE fg]
  ELSE IF indicator = EMA_NAME THEN
    [data |-> df,
     fig |-> IF ran(101) THEN Append(fg, Scatter(df, EMA(df), "EMA (20)")) ELSE fg]
  ELSE IF indicator = BB_NAME THEN
    [data |-> df,
     fig |-> LET f1 == IF ran(107) THEN Append(fg, Scatter(df, BBUpper(df), "BB Upper")) ELSE fg
             IN  IF ran(108) THEN Append(f1, Scatter(df, BBLower(df), "BB Lower")) ELSE f1]
  ELSE IF indicator = VWAP_NAME THEN
    LET d1 == IF ran(110) THEN SetColumn(df, "VWAP", VWAP(df)) ELSE df
    IN  [data |-> d1,
         fig |-> IF ran(111) THEN Append(fg, Scatter(d1, d1["VWAP"], "VWAP")) ELSE fg]
  ELSE [data |-> df, fig |-> fg]

IndicatorError(indicator) == [kind |-> "error", text |-> "Error adding indicator", arg |-> indicator]

\* A variant of add_indicator whose handler swallows the exception.
add_indicator_silent(indicator, df, fg, fault) ==
  LET r == TryBody(indicator, df, fg, fault)
  IN  [data |-> r.data, fig |-> r.fig, out |-> <<>>]

\* add_indicator(indicator, data, fig): the try block, and the handler of
\* lines 112-113, which reports the exception and returns.
add_indicator(indicator, df, fg, fault) ==
  LET r == TryBody(indicator, df, fg, fault)
  IN  [data |-> r.data, fig |-> r.fig,
       out |-> IF fault = 0 THEN <<>> ELSE <<IndicatorError(indicator)>>]

(***************************************************************************)
(* What the page shows: the st.* calls of a run, in order.                 *)
(***************************************************************************)
Shown(kind, text, arg) == [kind |-> kind, text |-> text, arg |-> arg]

FetchSuccess == Shown("success", "Stock data loaded successfully!", <<>>)

FetchError == Shown("error", "Error fetching data", <<>>)

\* Line 155: one text, whatever made the gate of line 43 fail.
ValidationWarning(df) ==
  Shown("warning",
        "No data found for the specified ticker and date range, or data contains NaN values. Please check your inputs.",
        <<>>)

FetchHint == Shown("info", "Click 'Fetch Data' to load stock data.", <<>>)

ConvertError == Shown("error", "Error converting data to numeric", <<>>)

DataPreview(df) == Shown("write", "First 5 rows of data:", df)

Chart(fg) == Shown("plotly_chart", "", fg)

AnalysisHeader == Shown("write", "**AI Analysis Results:**", <<>>)

AnalysisText(content) == Shown("write", "", content)

(***************************************************************************)
(* State.                                                                  *)
(***************************************************************************)
VARIABLES
  session_state,   \* st.session_state: a function on {} or {"stock_data"}
  indicators,      \* the value of the indicator multiselect
  widgets,         \* the widgets the current (or last) run has rendered
  files,           \* the temporary directory: file name -> content
  analyses,        \* NamedTemporaryFile calls so far
  pc,              \* the block the run executes next; "done" when the script
                   \* has stopped, "idle" between runs
  clicked,         \* the button whose click started the run, or "none"
  start,           \* how the run started: whether the last run had rendered the
                   \* analysis button, and whether the multiselect was changed
  fig,             \* the figure: <<>> until line 66 builds it
  idx,             \* position of the loop of line 116 in indicators
  faults,          \* per add_indicator call of the run: the line that raised, or 0
  out,             \* what the run has put on the page
  outcome,         \* how the run ended: "completed", "stopped" (st.stop) or
                   \* "exception"; "running" during a run, "none" between runs
  tmpfile_path,    \* tmpfile_path of line 129; 0 until assigned
  created,         \* the file NamedTemporaryFile created in this run; 0 if none
  messages,        \* the request of line 136-144; <<>> until built
  response         \* what ollama.chat returned; <<>> until it returns

vars ==
  <<session_state, indicators, widgets, files, analyses, pc, clicked, start, fig,
    idx, faults, out, outcome, tmpfile_path, created, messages, response>>

locals == <<fig, idx, faults, tmpfile_path, created, messages, response>>

HasData == "stock_data" \in DOMAIN session_state

\* data = st.session_state["stock_data"]: the same object, not a copy.
data == session_state["stock_data"]

Store(df) == [k \in {"stock_data"} |-> df]

\* A variant of the gate that forgets the null check.
GateOpenNoNullCheck(df) == ~IsEmpty(df)

\* The gate of line 43.
GateOpen(df) == ~IsEmpty(df) /\ ~HasNull(df)

NoStart == [ready |-> FALSE, reselected |-> FALSE]

Init ==
  /\ session_state = <<>>
  /\ indicators = DefaultSelection
  /\ widgets = {}
  /\ files = <<>>
  /\ analyses = 0
  /\ pc = "idle"
  /\ clicked = "none"
  /\ start = NoStart
  /\ fig = <<>>
  /\ idx = 0
  /\ faults = <<>>
  /\ out = <<>>
  /\ outcome = "none"
  /\ tmpfile_path = 0
  /\ created = 0
  /\ messages = <<>>
  /\ response = <<>>

\* The script stops: by reaching its end, by st.stop() or by an exception
\* nothing catches.  `shown` are the widgets the run has rendered.
Finish(how, shown) ==
  /\ pc' = "done"
  /\ outcome' = how
  /\ widgets' = shown
  /\ UNCHANGED indicators

Continue(next) ==
  /\ pc' = next
  /\ UNCHANGED <<outcome, widgets, indicators>>

(***************************************************************************)
(* A user interaction starts a run: a page load or a change of ticker or   *)
(* dates, a click on "Fetch Data" (always rendered, line 23), a change of  *)
(* the multiselect or a click on "Run AI Analysis"; the latter two can     *)
(* only be used when the last run rendered them.  A button reads True in   *)
(* the run its click started and in no other.                              *)
(***************************************************************************)
StartRun(button, sel) ==
  /\ pc' = IF button = "fetch" THEN "fetch" ELSE "gate"
  /\ clicked' = button
  /\ start' = [ready |-> "analysis_button" \in widgets, reselected |-> sel # indicators]
  /\ indicators' = sel
  /\ widgets' = {}
  /\ outcome' = "running"
  /\ UNCHANGED <<session_state, files, analyses, out>>
  /\ UNCHANGED locals

Load ==
  /\ pc = "idle"
  /\ StartRun("none", indicators)

ClickFetch ==
  /\ pc = "idle"
  /\ StartRun("fetch", indicators)

Select ==
  /\ pc = "idle"
  /\ "multiselect" \in widgets
  /\ \E sel \in Selections \ {indicators} : StartRun("none", sel)

ClickAnalysis ==
  /\ pc = "idle"
  /\ "analysis_button" \in widgets
  /\ analyses < MaxAnalyses
  /\ StartRun("analysis", indicators)

(***************************************************************************)
(* The run is over: every name of the script is dropped, and a widget the  *)
(* run did not render loses its value, so that the multiselect starts from *)
(* its default again.  st.session_state and the files stay.                *)
(***************************************************************************)
EndRun ==
  /\ pc = "done"
  /\ pc' = "idle"
  /\ indicators' = IF "multiselect" \in widgets THEN indicators ELSE DefaultSelection
  /\ clicked' = "none"
  /\ start' = NoStart
  /\ outcome' = "none"
  /\ out' = <<>>
  /\ fig' = <<>>
  /\ idx' = 0
  /\ faults' = <<>>
  /\ tmpfile_path' = 0
  /\ created' = 0
  /\ messages' = <<>>
  /\ response' = <<>>
  /\ UNCHANGED <<session_state, widgets, files, analyses>>

(***************************************************************************)
(* Lines 23-36: Fetch Data.                                                *)
(***************************************************************************)
FetchOk ==
  /\ pc = "fetch"
  /\ \E df \in ProviderFrames : session_state' = Store(df)
  /\ out' = Append(out, FetchSuccess)
  /\ Continue("gate")
  /\ UNCHANGED <<files, analyses, clicked, start>>
  /\ UNCHANGED locals

\* A variant of FetchFail that assigns st.session_state before the frame is
\* flattened: the exception leaves a frame without rows behind.
FetchFailStoresPartial ==
  /\ pc = "fetch"
  /\ session_state' = Store(MakeFrame(<<>>, <<>>))
  /\ out' = Append(out, Shown("error", "Error fetching data", <<>>))
  /\ Finish("stopped", widgets)
  /\ UNCHANGED <<files, analyses, clicked, start>>
  /\ UNCHANGED locals

\* A variant of FetchFail without the st.stop() of line 36: the script goes
\* on to the session read after the error.
FetchFailNoStop ==
  /\ pc = "fetch"
  /\ out' = Append(out, FetchError)
  /\ Continue("gate")
  /\ UNCHANGED <<session_state, files, analyses, clicked, start>>
  /\ UNCHANGED locals

\* yf.download or the flattening raised: nothing is stored, st.stop().
FetchFail ==
  /\ pc = "fetch"
  /\ out' = Append(out, FetchError)
  /\ Finish("stopped", widgets)
  /\ UNCHANGED <<session_state, files, analyses, clicked, start>>
  /\ UNCHANGED locals

(***************************************************************************)
(* Lines 39-52 and 154-158: the gate.                                      *)
(***************************************************************************)
NoData ==
  /\ pc = "gate"
  /\ ~HasData
  /\ out' = Append(out, FetchHint)
  /\ Finish("completed", widgets)
  /\ UNCHANGED <<session_state, files, analyses, clicked, start>>
  /\ UNCHANGED locals

\* A variant of GateFail with the analysis block outside the branch of
\* line 43: after the warning, a click on the button is still served.
GateFailThenAnalysis ==
  /\ pc = "gate"
  /\ HasData
  /\ ~GateOpen(data)
  /\ out' = out \o <<ValidationWarning(data), FetchHint>>
  /\ IF clicked = "analysis"
       THEN Continue("render")
       ELSE Finish("completed", widgets)
  /\ UNCHANGED <<session_state, files, analyses, clicked, start>>
  /\ UNCHANGED locals

GateFail ==
  /\ pc = "gate"
  /\ HasData
  /\ ~GateOpen(data)
  /\ out' = out \o <<ValidationWarning(data), FetchHint>>
  /\ Finish("completed", widgets)
  /\ UNCHANGED <<session_state, files, analyses, clicked, start>>
  /\ UNCHANGED locals

GatePass ==
  /\ pc = "gate"
  /\ HasData
  /\ GateOpen(data)
  /\ out' = Append(out, DataPreview(data))
  /\ Continue("numeric")
  /\ UNCHANGED <<session_state, files, analyses, clicked, start>>
  /\ UNCHANGED locals

(***************************************************************************)
(* Lines 55-63: the numeric conversion, assigned into the stored frame.    *)
(***************************************************************************)
ConvertOk ==
  /\ pc = "numeric"
  /\ ToNumeric(data).ok
  /\ session_state' = Store(ToNumeric(data).data)
  /\ Continue("chart")
  /\ UNCHANGED <<files, analyses, clicked, start, out>>
  /\ UNCHANGED locals

ConvertFail ==
  /\ pc = "numeric"
  /\ ~ToNumeric(data).ok
  /\ session_state' = Store(ToNumeric(data).data)
  /\ out' = Append(out, ConvertError)
  /\ Finish("stopped", widgets)
  /\ UNCHANGED <<files, analyses, clicked, start>>
  /\ UNCHANGED locals

(***************************************************************************)
(* Lines 66-91: the candlestick figure, shown once, and the multiselect.   *)
(***************************************************************************)
BuildChart ==
  /\ pc = "chart"
  /\ fig' = <<Candlestick(data)>>
  /\ out' = Append(out, Chart(fig'))
  /\ widgets' = widgets \cup {"multiselect"}
  /\ idx' = 1
  /\ pc' = "indicators"
  /\ UNCHANGED <<session_state, indicators, files, analyses, clicked, start, outcome,
                 faults, tmpfile_path, created, messages, response>>

(***************************************************************************)
(* Lines 116-117: one call of add_indicator.                               *)
(***************************************************************************)
OptionRank(indicator) == CHOOSE p \in DOMAIN IndicatorOptions : IndicatorOptions[p] = indicator

\* A variant of the loop that visits the selection in the order of the options.
NextIndicatorSorted(sel, k) ==
  CHOOSE x \in {sel[j] : j \in DOMAIN sel} :
    Cardinality({j \in DOMAIN sel : OptionRank(sel[j]) < OptionRank(x)}) = k - 1

\* for indicator in indicators: the k-th indicator the loop visits.
NextIndicator(sel, k) == sel[k]

FaultCount == Cardinality({k \in DOMAIN faults : faults[k] # 0})

AddIndicatorWith(fault) ==
  LET r == add_indicator(NextIndicator(indicators, idx), data, fig, fault)
  IN  /\ session_state' = Store(r.data)
      /\ fig' = r.fig
      /\ out' = out \o r.out
      /\ faults' = Append(faults, fault)
      /\ idx' = idx + 1
      /\ UNCHANGED <<indicators, widgets, files, analyses, pc, clicked, start, outcome,
                     tmpfile_path, created, messages, response>>

AddIndicator ==
  /\ pc = "indicators"
  /\ idx <= Len(indicators)
  /\ AddIndicatorWith(0)

AddIndicatorRaises ==
  /\ pc = "indicators"
  /\ idx <= Len(indicators)
  /\ FaultCount < MaxFaults
  /\ \E line \in BranchLines(NextIndicator(indicators, idx)) : AddIndicatorWith(line)

(***************************************************************************)
(* Lines 119-124: the finished chart and the analysis button.              *)
(***************************************************************************)
\* A variant that shows the final chart and the analysis button only when
\* an indicator is selected.
ShowChartIfSelected ==
  /\ pc = "indicators"
  /\ idx > Len(indicators)
  /\ IF indicators = <<>>
       THEN /\ out' = out
            /\ Finish("completed", widgets)
       ELSE /\ out' = Append(out, Chart(fig))
            /\ IF clicked = "analysis"
                 THEN /\ pc' = "render"
                      /\ widgets' = widgets \cup {"analysis_button"}
                      /\ UNCHANGED <<outcome, indicators>>
                 ELSE Finish("completed", widgets \cup {"analysis_button"})
  /\ UNCHANGED <<session_state, files, analyses, clicked, start>>
  /\ UNCHANGED locals

ShowChart ==
  /\ pc = "indicators"
  /\ idx > Len(indicators)
  /\ out' = Append(out, Chart(fig))
  /\ IF clicked = "analysis"
       THEN /\ pc' = "render"
            /\ widgets' = widgets \cup {"analysis_button"}
            /\ UNCHANGED <<outcome, indicators>>
       ELSE Finish("completed", widgets \cup {"analysis_button"})
  /\ UNCHANGED <<session_state, files, analyses, clicked, start>>
  /\ UNCHANGED locals

(***************************************************************************)
(* Lines 125-129: the temporary file and fig.write_image.  The bytes of an *)
(* image are identified by the write_image call that produced them; a file *)
(* created and not written holds 0.                                        *)
(***************************************************************************)
\* NamedTemporaryFile: a name no file of the directory has.  The names are
\* opaque to the script; the n-th call is given the name n.
FreshName(n) == n + 1

WriteFile(fs, name, content) ==
  [n \in DOMAIN fs \cup {name} |-> IF n = name THEN content ELSE fs[n]]

RemoveFile(fs, name) == [n \in DOMAIN fs \ {name} |-> fs[n]]

RenderOk ==
  /\ pc = "render"
  /\ LET name == FreshName(analyses)
     IN  /\ files' = WriteFile(files, name, analyses + 1)
         /\ created' = name
         /\ tmpfile_path' = name
  /\ analyses' = analyses + 1
  /\ Continue("chat")
  /\ UNCHANGED <<session_state, clicked, start, fig, idx, faults, out, messages, response>>

\* write_image raised: the with block closes the file and, with
\* delete=False, leaves it; nothing catches the exception.
RenderFail ==
  /\ pc = "render"
  /\ LET name == FreshName(analyses)
     IN  /\ files' = WriteFile(files, name, 0)
         /\ created' = name
  /\ analyses' = analyses + 1
  /\ Finish("exception", widgets)
  /\ UNCHANGED <<session_state, clicked, start, fig, idx, faults, out, tmpfile_path,
                 messages, response>>

(***************************************************************************)
(* Lines 131-145: the image is read back, encoded and sent.                *)
(***************************************************************************)
\* A variant that reads the first file of the directory instead of the one
\* this run wrote: an image kept from an earlier invocation.
ReadFileStale(fs, path) == fs[CHOOSE n \in DOMAIN fs : \A m \in DOMAIN fs : n <= m]

\* open(tmpfile_path, "rb").read()
ReadFile(fs, path) == fs[path]

\* base64.b64encode(...).decode('utf-8')
B64(bytes) == [b64 |-> bytes]

Request(image) ==
  <<[role |-> "user", content |-> "analyst prompt", images |-> <<image>>]>>

\* The payloads ollama.chat can return for a request: a recommendation for
\* the image it was sent, an empty text, or a payload without a message.
Recommendation(msgs) == [message |-> [content |-> [text |-> "recommendation", of |-> msgs[1].images]]]

EmptyAnswer == [message |-> [content |-> [text |-> "", of |-> <<>>]]]

Malformed == [error |-> "malformed"]

ChatReturns ==
  /\ pc = "chat"
  /\ messages' = Request(B64(ReadFile(files, tmpfile_path)))
  /\ response' \in {Recommendation(messages'), EmptyAnswer, Malformed}
  /\ Continue("display")
  /\ UNCHANGED <<session_state, files, analyses, clicked, start, fig, idx, faults, out,
                 tmpfile_path, created>>

\* ollama.chat raised (endpoint unreachable, timeout): nothing catches it.
ChatRaises ==
  /\ pc = "chat"
  /\ messages' = Request(B64(ReadFile(files, tmpfile_path)))
  /\ Finish("exception", widgets)
  /\ UNCHANGED <<session_state, files, analyses, clicked, start, fig, idx, faults, out,
                 tmpfile_path, created, response>>

(***************************************************************************)
(* Lines 147-152: the result is shown and the file removed.                *)
(***************************************************************************)
Display ==
  /\ pc = "display"
  /\ "message" \in DOMAIN response
  /\ out' = out \o <<AnalysisHeader, AnalysisText(response["message"]["content"])>>
  /\ files' = RemoveFile(files, tmpfile_path)
  /\ Finish("completed", widgets)
  /\ UNCHANGED <<session_state, analyses, clicked, start>>
  /\ UNCHANGED locals

\* response["message"] raised KeyError after the header was written.
DisplayRaises ==
  /\ pc = "display"
  /\ "message" \notin DOMAIN response
  /\ out' = Append(out, AnalysisHeader)
  /\ Finish("exception", widgets)
  /\ UNCHANGED <<session_state, files, analyses, clicked, start>>
  /\ UNCHANGED locals

Next ==
  \/ EndRun
  \/ Load
  \/ ClickFetch
  \/ Select
  \/ ClickAnalysis
  \/ FetchOk
  \/ FetchFail
  \/ NoData
  \/ GateFail
  \/ GatePass
  \/ ConvertOk
  \/ ConvertFail
  \/ BuildChart
  \/ AddIndicator
  \/ AddIndicatorRaises
  \/ ShowChart
  \/ RenderOk
  \/ RenderFail
  \/ ChatReturns
  \/ ChatRaises
  \/ Display
  \/ DisplayRaises

Spec == Init /\ [][Next]_vars

(***************************************************************************)
(* Vocabulary of the properties.                                           *)
(***************************************************************************)
Reported(msg) ==
  \E k \in DOMAIN out : out[k].kind = msg.kind /\ out[k].text = msg.text

ReportedAfter(msg) ==
  \E k \in DOMAIN out' : out'[k].kind = msg.kind /\ out'[k].text = msg.text

ErrorReported == \E k \in DOMAIN out : out[k].kind = "error"

\* The text of an answer of the model is on the page.
ResultDisplayed ==
  \E k \in DOMAIN out : out[k].kind = "write" /\ out[k].text = "" /\ out[k].arg # <<>>

RunOver == pc = "done"

\* The run clicked "Run AI Analysis" and its render or its model request failed.
RenderFailed == RunOver /\ created # 0 /\ tmpfile_path = 0

RequestFailed == RunOver /\ messages # <<>> /\ response = <<>>

(***************************************************************************)
(* C1.  For every "run analysis" invocation, whatever the outcome of the   *)
(* render and of the model request, the temporary file the invocation      *)
(* created no longer exists when the invocation returns.                   *)
(* Stated as: whenever a run is over and it created a temporary file, the  *)
(* file is not in the directory.                                           *)
(***************************************************************************)
C1_TempFileRemoved == (RunOver /\ created # 0) => created \notin DOMAIN files

(***************************************************************************)
(* C2.  When the render or the model request of "run analysis" fails, the  *)
(* failure is caught and reported as a message, no result is displayed,    *)
(* the analysis button stays available (ChartReady), and no exception      *)
(* leaves the script unhandled.                                            *)
(***************************************************************************)
C2_AnalysisFailureRecovered ==
  (RenderFailed \/ RequestFailed) =>
    /\ outcome # "exception"
    /\ ErrorReported
    /\ ~ResultDisplayed
    /\ "analysis_button" \in widgets

(***************************************************************************)
(* C3.  When a fetch fails, the failure is reported, the request stores no *)
(* PriceSeries, and the Orchestrator returns to Empty.                     *)
(* The claim as written: after a run that ended in a fetch failure the     *)
(* session holds no PriceSeries.                                           *)
(***************************************************************************)
FetchFailed == RunOver /\ clicked = "fetch" /\ Reported(FetchError)

C4_GateHalts ==
  [][(pc = "gate" /\ HasData /\ (IsEmpty(data) \/ HasNull(data))) =>
       /\ pc' = "done"
       /\ ReportedAfter(ValidationWarning(data))
       /\ fig' = <<>>
       /\ faults' = <<>>
       /\ created' = 0
       /\ messages' = <<>>]_vars

\* A run was halted at the gate by a null value.
C4_Witness ==
  /\ RunOver
  /\ HasData
  /\ HasNull(data)
  /\ ~IsEmpty(data)
  /\ Reported(ValidationWarning(data))
  /\ fig = <<>>
  /\ faults = <<>>

(***************************************************************************)
(* C5.  Once a fetch has stored a PriceSeries, no later step adds, removes *)
(* or changes any of its columns or values; only a new fetch replaces it.  *)
(* Stated on every step outside the fetch block: the stored frame keeps    *)
(* its columns and the value of every cell (a text "1" and the number 1    *)
(* count as the same value).                                               *)
(***************************************************************************)
SameValues(a, b) ==
  /\ DOMAIN a = DOMAIN b
  /\ \A c \in DOMAIN a :
       /\ Len(a[c]) = Len(b[c])
       /\ \A k \in DOMAIN a[c] : a[c][k].num = b[c][k].num /\ a[c][k].den = b[c][k].den

C5_StoredSeriesImmutable ==
  [][(HasData /\ pc # "fetch") =>
       /\ "stock_data" \in DOMAIN session_state'
       /\ SameValues(session_state'["stock_data"], data)]_vars

(***************************************************************************)
(* C6.  If the computation of one selected indicator fails, a warning      *)
(* naming it is surfaced, it contributes no layer, every other selected    *)
(* indicator is still computed with its layers in selection order, and the *)
(* chart build completes.                                                  *)
(* Stated for every run whose add_indicator exceptions were raised by the  *)
(* computing lines: the figure is the candlestick followed by the layers   *)
(* of the indicators that did not fail, in selection order; each failed    *)
(* indicator is named in an error on the page; and once the loop is left   *)
(* every selected indicator was visited and the figure is on the page.     *)
(***************************************************************************)
OverlayNames(indicator) ==
  IF indicator = SMA_NAME THEN <<"SMA (20)">>
  ELSE IF indicator = EMA_NAME THEN <<"EMA (20)">>
  ELSE IF indicator = BB_NAME THEN <<"BB Upper", "BB Lower">>
  ELSE <<"VWAP">>

LayerNames(fg) == [k \in DOMAIN fg |-> fg[k].name]

RECURSIVE SurvivingOverlays(_, _, _)
SurvivingOverlays(sel, fl, n) ==
  IF n = 0 THEN <<>>
  ELSE SurvivingOverlays(sel, fl, n - 1) \o (IF fl[n] = 0 THEN OverlayNames(sel[n]) ELSE <<>>)

ChartBuilt == idx >= 1

OnlyComputeFaults ==
  \A k \in DOMAIN faults : faults[k] = 0 \/ faults[k] \in ComputeLines(indicators[k])

FigureShown ==
  \E j \in DOMAIN out : out[j].kind = "plotly_chart" /\ out[j].arg = fig

C6_IndicatorFailureIsolated ==
  (ChartBuilt /\ OnlyComputeFaults) =>
    /\ LayerNames(fig) = <<"Candlestick">> \o SurvivingOverlays(indicators, faults, Len(faults))
    /\ \A k \in DOMAIN faults :
         faults[k] # 0 =>
           \E j \in DOMAIN out :
             /\ out[j].kind = "error"
             /\ out[j].text = "Error adding indicator"
             /\ out[j].arg = indicators[k]
    /\ pc # "indicators" =>
         /\ Len(faults) = Len(indicators)
         /\ FigureShown
         /\ outcome = "exception" => created # 0

\* The first of two selected indicators failed in its computation and the
\* run completed with the second one's layer on the chart.
C6_Witness ==
  /\ RunOver
  /\ outcome = "completed"
  /\ Len(indicators) = 2
  /\ Len(faults) = 2
  /\ faults[1] \in ComputeLines(indicators[1])
  /\ faults[2] = 0
  /\ LayerNames(fig) = <<"Candlestick">> \o OverlayNames(indicators[2])

(***************************************************************************)
(* C7.  For every valid PriceSeries and ordered selection, the ChartSpec   *)
(* has exactly one candlestick layer, first, followed by the overlays of   *)
(* the selected indicators in selection order: one line for SMA, EMA and   *)
(* VWAP, two (upper, lower) for Bollinger Bands.                           *)
(* Stated for every run in which no add_indicator call raised: after n     *)
(* calls the figure is the candlestick and the lines of the first n        *)
(* selected indicators.                                                    *)
(***************************************************************************)
RECURSIVE Overlays(_, _)
Overlays(sel, n) == IF n = 0 THEN <<>> ELSE Overlays(sel, n - 1) \o OverlayNames(sel[n])

NoFaults == \A k \in DOMAIN faults : faults[k] = 0

C7_LayerOrder ==
  (ChartBuilt /\ NoFaults) =>
    /\ fig[1].type = "candlestick"
    /\ \A k \in 2..Len(fig) : fig[k].type = "scatter" /\ fig[k].mode = "lines"
    /\ LayerNames(fig) = <<"Candlestick">> \o Overlays(indicators, Len(faults))
    /\ pc # "indicators" => Len(faults) = Len(indicators)

\* The selection ["20-Day SMA", "VWAP"] gave three layers.
C7_Witness ==
  /\ RunOver
  /\ indicators = <<SMA_NAME, VWAP_NAME>>
  /\ NoFaults
  /\ Len(fig) = 3
  /\ LayerNames(fig) = <<"Candlestick", "SMA (20)", "VWAP">>

(***************************************************************************)
(* C8.  Every "run analysis" invocation renders the current chart itself   *)
(* and issues its own model request; none reuses an image rendered by, or  *)
(* a result returned to, an earlier invocation.                            *)
(* Stated as: a request of a run carries the image that this run's         *)
(* write_image call wrote into the file this run created, and a result     *)
(* on the page is the content of the response to this run's request.       *)
(***************************************************************************)
\* The bytes of the write_image call of the current run.
OwnRender == analyses

Results == {k \in DOMAIN out : out[k].kind = "write" /\ out[k].text = "" /\ out[k].arg # <<>>}

C8_NoReuse ==
  /\ messages # <<>> =>
       /\ created # 0
       /\ tmpfile_path = created
       /\ messages[1].images = <<B64(OwnRender)>>
  /\ \A k \in Results :
       /\ messages # <<>>
       /\ response # <<>>
       /\ "message" \in DOMAIN response
       /\ out[k].arg = response["message"]["content"]
       /\ out[k].arg.of \in {<<>>, messages[1].images}

\* A second invocation showed its result while the file an earlier, failed
\* invocation left behind was still in the directory.
C8_Witness ==
  /\ RunOver
  /\ analyses = 2
  /\ files # <<>>
  /\ \E k \in Results : out[k].arg.of = <<B64(2)>>

(***************************************************************************)
(* C9.  For every index i, VWAP at i equals                                *)
(* sum(close[0..i]*volume[0..i]) / sum(volume[0..i]); where the cumulative *)
(* volume is 0 it is undefined, without a fatal error and without the      *)
(* undefined value being propagated downstream uncontrolled.               *)
(* Stated on the VWAP column the session frame holds: where the cumulative *)
(* volume is positive the cell is the quotient, and where it is 0 the cell *)
(* is not a NaN left in the stored PriceSeries, which the gate of the next *)
(* run reads.                                                              *)
(***************************************************************************)
RECURSIVE CumVolume(_, _)
CumVolume(df, i) == IF i = 0 THEN 0 ELSE CumVolume(df, i - 1) + df["Volume"][i].num

RECURSIVE CumTurnover(_, _)
CumTurnover(df, i) ==
  IF i = 0 THEN 0 ELSE CumTurnover(df, i - 1) + df["Close"][i].num * df["Volume"][i].num

C9_VWAP ==
  (HasData /\ "VWAP" \in DOMAIN data) =>
    \A i \in 1..Rows(data) :
      LET v == data["VWAP"][i]
      IN  IF CumVolume(data, i) # 0
            THEN v.den > 0 /\ v.num * CumVolume(data, i) = v.den * CumTurnover(data, i)
            ELSE ~IsNullCell(v)

(***************************************************************************)
(* C10.  A stored PriceSeries with 0 rows yields a ValidationFailure whose *)
(* message is distinct from the one reported for a PriceSeries that        *)
(* contains a null value.                                                  *)
(* Stated as: the warning of a run halted by a frame without rows is not   *)
(* the text line 155 shows for any frame with a null value.                *)
(***************************************************************************)
NullFrames == {f \in ProviderFrames : ~IsEmpty(f) /\ HasNull(f)}

C10_DistinctMessages ==
  (RunOver /\ HasData /\ IsEmpty(data)) =>
    \A k \in DOMAIN out :
      out[k].kind = "warning" =>
        \A f \in NullFrames : out[k].text # ValidationWarning(f).text

(***************************************************************************)
(* C11.  When the indicator selection changes while the Orchestrator is in *)
(* ChartReady, the state stays ChartReady without a re-fetch, and the      *)
(* chart is rebuilt before the next render: the image a later "run         *)
(* analysis" renders has exactly the layers of the current selection.      *)
(* Stated as: a run that a change of the multiselect started while the     *)
(* analysis button was on the page ends with the analysis button on the    *)
(* page; and the figure a run has rendered to its temporary file, no       *)
(* add_indicator call having raised, is the candlestick and the lines of   *)
(* the selection of that run.                                              *)
(***************************************************************************)
SelectionChangedInChartReady == start.ready /\ start.reselected /\ clicked = "none"

ChartReady == "analysis_button" \in widgets

C11_SelectionChangeKeepsChartReady ==
  /\ (RunOver /\ SelectionChangedInChartReady) => ChartReady
  /\ (tmpfile_path # 0 /\ NoFaults) =>
       LayerNames(fig) = <<"Candlestick">> \o Overlays(indicators, Len(indicators))

(***************************************************************************)
(* C12.  If the model endpoint is unreachable, times out, or returns a     *)
(* malformed or empty payload, the analysis surfaces a distinct failure;   *)
(* it never displays an empty recommendation as if it were a result.       *)
(* Stated as: when a run is over that sent a request and did not get a     *)
(* recommendation for it (ollama.chat raised, or returned a payload        *)
(* without a message or with an empty text), an error is on the page and   *)
(* no result is displayed.                                                 *)
(***************************************************************************)
NoRecommendation == messages # <<>> /\ response # Recommendation(messages)

C12_RequestFailureSurfaced ==
  (RunOver /\ NoRecommendation) => (ErrorReported /\ ~ResultDisplayed)

(***************************************************************************)
(* C13.  Once the stored PriceSeries has passed validation, ChartReady is  *)
(* always reached in that run, for every indicator selection, the empty    *)
(* one included (the ChartSpec is then the candlestick alone).             *)
(* Validation is the gate of line 43 and the type conversion of lines      *)
(* 55-63.  Stated as: in a run that has passed both, every step of the     *)
(* script brings the final chart nearer (the chart block, then one         *)
(* add_indicator call per selected indicator, then the final chart), the   *)
(* loop index never leaving the range in which the script has a next step; *)
(* and once the run is past the loop the final chart and the analysis      *)
(* button are on the page, the figure holding the candlestick alone when   *)
(* nothing is selected.                                                    *)
(***************************************************************************)
Validated ==
  /\ pc \notin {"idle", "fetch", "gate", "numeric"}
  /\ \E k \in DOMAIN out : out[k].kind = "write" /\ out[k].text = DataPreview(data).text
  /\ ~Reported(ConvertError)

ChartReadyReached ==
  /\ ChartReady
  /\ FigureShown
  /\ Len(faults) = Len(indicators)
  /\ indicators = <<>> => LayerNames(fig) = <<"Candlestick">>

\* The steps the script has left before the final chart is on the page.
StepsToChart ==
  IF pc = "chart" THEN Len(indicators) + 2
  ELSE IF pc = "indicators" THEN Len(indicators) + 2 - idx
  ELSE 0

C13_ValidatedReachesChartReady ==
  /\ [](Validated =>
         /\ pc = "indicators" => (idx \in 1..(Len(indicators) + 1) /\ Len(faults) = idx - 1)
         /\ pc \notin {"chart", "indicators"} => ChartReadyReached)
  /\ [][(Validated /\ StepsToChart > 0) =>
          (StepsToChart' = StepsToChart - 1 /\ indicators' = indicators)]_vars

\* A run with nothing selected is over, the candlestick alone on its chart.
C13_Witness ==
  /\ RunOver
  /\ Validated
  /\ indicators = <<>>
  /\ ChartReadyReached
  /\ Len(fig) = 1

(***************************************************************************)
(* The indicator loop on downloads about as long as the rolling window.    *)
(* A run that "Fetch Data" started has stored a download of Window - 1 to  *)
(* Window + MaxExtra rows, SMA and Bollinger Bands being what the          *)
(* multiselect holds; the script goes on from the gate to the final chart. *)
(***************************************************************************)
LongRows == (Window - 1)..(Window + MaxExtra)

\* Alternating closes, with a different close on day p (no such day: p = 0).
LongCloses(n, p) == [k \in 1..n |-> IF k = p THEN Num(SpikeClose) ELSE Closes(n)[k]]

LongFrames == {MakeFrame(LongCloses(n, p), Ones(n)) : <<n, p>> \in UNION {{<<m, q>> : q \in 0..m} : m \in LongRows}}

WindowSelections == {s \in Selections : \A k \in DOMAIN s : s[k] \in {SMA_NAME, BB_NAME}}

IndicatorInit ==
  /\ \E df \in LongFrames : session_state = Store(df)
  /\ indicators \in WindowSelections
  /\ widgets = {}
  /\ files = <<>>
  /\ analyses = 0
  /\ pc = "gate"
  /\ clicked = "fetch"
  /\ start = NoStart
  /\ fig = <<>>
  /\ idx = 0
  /\ faults = <<>>
  /\ out = <<FetchSuccess>>
  /\ outcome = "running"
  /\ tmpfile_path = 0
  /\ created = 0
  /\ messages = <<>>
  /\ response = <<>>

IndicatorNext ==
  \/ GatePass
  \/ ConvertOk
  \/ BuildChart
  \/ AddIndicator
  \/ ShowChart

IndicatorSpec == IndicatorInit /\ [][IndicatorNext]_vars

(***************************************************************************)
(* C14.  For every PriceSeries, SMA(20) is undefined at each of the first  *)
(* 19 indices and, at every index i >= 19, equals the arithmetic mean of   *)
(* close[i-19..i]; both Bollinger bands are undefined at exactly the       *)
(* indices where SMA(20) is undefined.                                     *)
(* Stated on the lines of the figure (rows counted from 1): the y of the   *)
(* line "SMA (20)" is NaN in every row before the 20th and from the 20th   *)
(* on the sum of the last 20 closes divided by 20; the y of "BB Upper" and *)
(* of "BB Lower" is NaN in exactly the rows before the 20th.               *)
(***************************************************************************)
RECURSIVE CloseSum(_, _, _)
CloseSum(df, lo, hi) == IF lo > hi THEN 0 ELSE CloseSum(df, lo, hi - 1) + df["Close"][hi].num

C14_SMAWindow ==
  \A j \in DOMAIN fig :
    /\ fig[j].name = "SMA (20)" =>
         \A i \in 1..Rows(data) :
           LET y == fig[j].y[i]
           IN  IF i < 20
                 THEN IsNullCell(y)
                 ELSE y.t = "float" /\ y.den > 0
                      /\ y.num * 20 = y.den * CloseSum(data, i - 19, i)
    /\ fig[j].name \in {"BB Upper", "BB Lower"} =>
         \A i \in 1..Rows(data) : (fig[j].y[i] = NaN) <=> (i < 20)

\* A download of 21 rows with one differing close: the SMA line and both
\* bands are on the chart, undefined in row 19 and defined in rows 20, 21,
\* where the two means differ.
C14_Witness ==
  /\ RunOver
  /\ Rows(data) = 21
  /\ LayerNames(fig) = <<"Candlestick", "SMA (20)", "BB Upper", "BB Lower">>
  /\ IsNullCell(fig[2].y[19])
  /\ IsFinite(fig[2].y[20])
  /\ fig[2].y[20] # fig[2].y[21]
  /\ fig[3].y[19] = NaN
  /\ fig[3].y[20].t = "band"
  /\ fig[4].y[21].t = "band"

(***************************************************************************)
(* C15.  Across runs with no new fetch in between, the validation gate     *)
(* gives the same verdict on the stored PriceSeries: once a fetched series *)
(* has passed validation and reached ChartReady, every later run passes    *)
(* validation again without a re-fetch, whatever was selected in earlier   *)
(* runs, VWAP included.                                                    *)
(* Stated as: when a run that "Fetch Data" did not start is at the gate,   *)
(* and the run before it had the analysis button on the page, the stored   *)
(* frame has rows and no null.                                             *)
(***************************************************************************)
C15_GateVerdictStable ==
  (pc = "gate" /\ clicked # "fetch" /\ start.ready) => (HasData /\ GateOpen(data))

(***************************************************************************)
(* C16.  A fetch request that raises leaves the previously stored          *)
(* PriceSeries (if any) unchanged and stops the run at once: no            *)
(* validation, indicator computation, chart build, render or model request *)
(* is executed in that run.                                                *)
(* Stated on the step that puts the fetch error on the page: it leaves     *)
(* st.session_state and the files as they were and ends the run as         *)
(* stopped, the error being all the page shows, with no figure, no         *)
(* add_indicator call, no temporary file, no request and no response; and  *)
(* the only step after it is the end of the run.                           *)
(***************************************************************************)
C16_FailedFetchStopsRun ==
  [][/\ (pc = "fetch" /\ ReportedAfter(FetchError)) =>
          /\ session_state' = session_state
          /\ files' = files
          /\ pc' = "done"
          /\ outcome' = "stopped"
          /\ out' = <<FetchError>>
          /\ fig' = <<>>
          /\ idx' = 0
          /\ faults' = <<>>
          /\ created' = 0
          /\ messages' = <<>>
          /\ response' = <<>>
     /\ FetchFailed => (pc' = "idle" /\ session_state' = session_state)]_vars

\* A fetch failed over a stored series that passes the gate: the run is
\* over with nothing but the error on the page.
C16_Witness ==
  /\ FetchFailed
  /\ HasData
  /\ GateOpen(data)
  /\ outcome = "stopped"
  /\ out = <<FetchError>>
  /\ fig = <<>>

(***************************************************************************)
(* C17.  A render and a model request are issued only in a run in which a  *)
(* PriceSeries is stored, it passed the validation gate, and the chart was *)
(* built in that same run from the current selection; from Empty, or in a  *)
(* run ending in fetch failure or validation failure, no image is rendered *)
(* and no model request is sent.                                           *)
(* Stated as: whenever the run has created its temporary file or built its *)
(* request, "Run AI Analysis" started it, a frame is stored, the preview   *)
(* the gate's branch writes is on the page and no fetch error, validation  *)
(* warning or conversion error is, every selected indicator was visited,   *)
(* and the figure, shown on the page, is the candlestick of the stored     *)
(* frame followed by lines of the current selection only (all of them, in  *)
(* selection order, when no add_indicator call raised); in a run without a *)
(* stored frame, or with a fetch error or a validation warning on the      *)
(* page, there is no temporary file and no request; and no request is      *)
(* built without a temporary file.                                         *)
(***************************************************************************)
RenderIssued == created # 0

RequestIssued == messages # <<>>

GatePassedInRun ==
  /\ \E k \in DOMAIN out : out[k].kind = "write" /\ out[k].text = DataPreview(data).text
  /\ ~Reported(ValidationWarning(data))

C17_AnalysisOnlyOnBuiltChart ==
  /\ (RenderIssued \/ RequestIssued) =>
       /\ clicked = "analysis"
       /\ HasData
       /\ GatePassedInRun
       /\ ~Reported(FetchError)
       /\ ~Reported(ConvertError)
       /\ Len(faults) = Len(indicators)
       /\ fig # <<>>
       /\ fig[1] = Candlestick(data)
       /\ \A k \in 2..Len(fig) :
            \E n \in DOMAIN indicators :
              \E j \in DOMAIN OverlayNames(indicators[n]) :
                fig[k].name = OverlayNames(indicators[n])[j]
       /\ NoFaults =>
            LayerNames(fig) = <<"Candlestick">> \o Overlays(indicators, Len(indicators))
       /\ FigureShown
  /\ (~HasData \/ Reported(FetchError) \/ Reported(ValidationWarning(data))) =>
       (~RenderIssued /\ ~RequestIssued)
  /\ RequestIssued => RenderIssued

\* An analysis run on the selection ["VWAP"] rendered its chart and got an
\* answer to its request.
C17_Witness ==
  /\ RunOver
  /\ RenderIssued
  /\ RequestIssued
  /\ response # <<>>
  /\ indicators = <<VWAP_NAME>>
  /\ LayerNames(fig) = <<"Candlestick", "VWAP">>

=============================================================================
